---------------------------- MODULE Spec2Model ----------------------------
(***************************************************************************)
(* A model of the sales analytics module (src/salesanalyzer.py): the       *)
(* SalesAnalyzer class, its constructor and analysis methods, and the      *)
(* sample data generator.                                                  *)
(*                                                                         *)
(* Representation.                                                         *)
(*  - A DataFrame is a record [cols, rows, amount_dtype]: the set of its   *)
(*    column names, the sequence of its rows (each a function from the     *)
(*    column names to cell values) and the dtype of an amount column that  *)
(*    holds no value ("object" for a column built from an empty list).     *)
(*  - DataFrames live in a heap of objects, so that a copy and an alias    *)
(*    are different things: heap[r] is the frame the reference r names.    *)
(*  - Money is an integer number of units, UnitsPerCent units to 0.01, so  *)
(*    that round(2) is a real rounding (half to even, as numpy rounds).    *)
(*  - An order_date cell is [type, day]: type "str" for a date the caller  *)
(*    gave as text, "datetime" for a timestamp; day counts the days from   *)
(*    2024-01-01.  pd.to_datetime turns every cell into a "datetime" one.  *)
(*  - A number that may be undefined is a record [kind, num, den]: kind    *)
(*    "num" for num/den, "nan" for NaN (pandas' null), "inf" for +inf.     *)
(***************************************************************************)
EXTENDS Integers, Sequences, FiniteSets, TLC

VARIABLES
    heap,        \* object id -> DataFrame (NoFrame: not allocated)
    self_df,     \* SalesAnalyzer.df: the reference it holds (0: none yet)
    phase,       \* "new", "ready" (constructed) or "failed" (__init__ raised)
    last,        \* the last call: [op, arg, raised, value]
    given,       \* history: the caller's frame as it was when __init__ ran
    callerView,  \* history: the caller's frame as the caller last wrote it
    mutations,   \* how many times the caller rewrote its frame after __init__
    clock,       \* the wall clock (datetime.now()), in ticks
    calls        \* the calls of generate_sample_data made so far

vars == <<heap, self_df, phase, last, given, callerView, mutations, clock, calls>>

---------------------------------------------------------------------------
(* Bounds of the model *)

MaxRows == 3
MaxAmount == 3
UnitsPerCent == 2
MaxMutations == 1
MaxTopN == 2
MaxSeed == 2
MaxRecords == 2
MaxClock == 2
TicksPerDay == 2

---------------------------------------------------------------------------
(* Values *)

NoFrame == [cols |-> {}, rows |-> <<>>, amount_dtype |-> "none"]

NaN == [kind |-> "nan", num |-> 0, den |-> 1]

Inf == [kind |-> "inf", num |-> 1, den |-> 1]

Num(n, d) == [kind |-> "num", num |-> n, den |-> d]

Caller == 1

Timestamp(day) == [type |-> "datetime", day |-> day]

DateText(day) == [type |-> "str", day |-> day]

Min(a, b) == IF a < b THEN a ELSE b

\* Python's round-half-to-even of num/den to an integer (den > 0).
RoundHalfEven(num, den) ==
    LET q == num \div den
        r == num % den
    IN  IF 2 * r < den THEN q
        ELSE IF 2 * r > den THEN q + 1
        ELSE IF q % 2 = 0 THEN q ELSE q + 1

\* .round(2) of the amount num/den (in units): a whole number of cents, in units.
Round2(num, den) == UnitsPerCent * RoundHalfEven(num, den * UnitsPerCent)

RECURSIVE SumSeq(_)
SumSeq(s) == IF s = <<>> THEN 0 ELSE s[1] + SumSeq(Tail(s))

Range(s) == {s[i] : i \in DOMAIN s}

SeqsUpTo(S, n) == UNION {[1..k -> S] : k \in 0..n}

---------------------------------------------------------------------------
(* Calendar and orderings of the key values *)

\* The days of the months of 2024; the model's dates lie in that year.
DaysInMonth == <<31, 29, 31, 30, 31, 30, 31, 31, 30, 31, 30, 31>>

RECURSIVE MonthOfDay(_, _)
MonthOfDay(day, m) ==
    IF m >= Len(DaysInMonth) \/ day < DaysInMonth[m] THEN m
    ELSE MonthOfDay(day - DaysInMonth[m], m + 1)

\* Series.dt.to_period('M') of one timestamp: its calendar year-month.
to_period_M(ts) == [year |-> 2024, month |-> MonthOfDay(ts.day, 1)]

PeriodOrdinal(p) == p.year * 12 + p.month

\* The strings of each key column, in Python's string order.
CustomerIds == <<"CUST-0100", "CUST-0101", "CUST-0102", "CUST-0103">>

RegionNames == <<"Central", "East", "North">>

CategoryNames == <<"Electronics", "Hardware", "Software">>

IndexIn(seq, x) == CHOOSE i \in DOMAIN seq : seq[i] = x

\* The place of the key k among the keys of column col, in ascending order.
Rank(col, k) ==
    CASE col = "region" -> IndexIn(RegionNames, k)
      [] col = "product_category" -> IndexIn(CategoryNames, k)
      [] col = "customer_id" -> IndexIn(CustomerIds, k)
      [] col \in {"year_month", "cohort_month"} -> PeriodOrdinal(k)


---------------------------------------------------------------------------
(* pandas operations the analyzer uses *)

Reverse(s) == [i \in 1..Len(s) |-> s[Len(s) + 1 - i]]

\* The row x put into the rows s, ascending in column by, behind every row
\* whose value there is not greater than its own.
RECURSIVE InsertSorted(_, _, _)
InsertSorted(s, by, x) ==
    IF s = <<>> THEN <<x>>
    ELSE IF x[by] < s[1][by] THEN <<x>> \o s
    ELSE <<s[1]>> \o InsertSorted(Tail(s), by, x)

\* numpy's sort of a short array: an insertion sort, ascending and stable.
RECURSIVE SortAscending(_, _, _)
SortAscending(s, by, acc) ==
    IF s = <<>> THEN acc
    ELSE SortAscending(Tail(s), by, InsertSorted(acc, by, s[1]))

\* sort_values(by, ascending=True): the rows ascending in column by.
sort_values_ascending(s, by) == SortAscending(s, by, <<>>)

\* The rows in ascending order where descending order was asked for.
sort_values_wrong_direction(s, by) == SortAscending(s, by, <<>>)

\* The values of a Series in ascending order.
sort_series(s) ==
    LET rows == SortAscending([i \in 1..Len(s) |-> [value |-> s[i]]], "value", <<>>)
    IN  [i \in 1..Len(rows) |-> rows[i].value]

\* sort_values(by, ascending=False): pandas reverses the rows, sorts them
\* ascending and reverses the outcome.
sort_values_descending(s, by) == Reverse(SortAscending(Reverse(s), by, <<>>))

\* The distinct keys of column col in ascending order, as groupby (sort=True)
\* lists them.
RECURSIVE SortedKeys(_, _)
SortedKeys(col, S) ==
    IF S = {} THEN <<>>
    ELSE LET m == CHOOSE x \in S : \A y \in S : Rank(col, x) <= Rank(col, y)
         IN  <<m>> \o SortedKeys(col, S \ {m})

\* groupby(col): one group per distinct key, the keys ascending; a group is
\* its key and its rows, in the frame's order.
groupby(rows, col) ==
    LET keys == SortedKeys(col, {rows[i][col] : i \in DOMAIN rows})
    IN  [g \in 1..Len(keys) |->
            [key |-> keys[g],
             rows |-> SelectSeq(rows, LAMBDA r : r[col] = keys[g])]]

ColumnOf(rows, col) == [i \in 1..Len(rows) |-> rows[i][col]]

nunique(s) == Cardinality(Range(s))

\* Series.mean(): NaN over no value.
mean(s) == IF s = <<>> THEN NaN ELSE Num(SumSeq(s), Len(s))

\* Series.median(): NaN over no value; the mean of the two middle values of
\* an even number of them.
median(s) ==
    LET v == sort_series(s)
        n == Len(s)
    IN  IF n = 0 THEN NaN
        ELSE IF n % 2 = 1 THEN Num(v[(n + 1) \div 2], 1)
        ELSE Num(v[n \div 2] + v[n \div 2 + 1], 2)

SeqMin(s) == IF s = <<>> THEN NaN ELSE Num(CHOOSE x \in Range(s) : \A y \in Range(s) : x <= y, 1)

SeqMax(s) == IF s = <<>> THEN NaN ELSE Num(CHOOSE x \in Range(s) : \A y \in Range(s) : x >= y, 1)

\* A copy that is no copy: the same object under the same reference.
DataFrame_alias(h, r) == [heap |-> h, ref |-> r]

\* DataFrame.copy(): a new object holding the same columns and cells.
DataFrame_copy(h, r) ==
    LET new == CHOOSE i \in DOMAIN h : h[i] = NoFrame /\ \A j \in DOMAIN h : h[j] = NoFrame => i <= j
    IN  [heap |-> [h EXCEPT ![new] = h[r]], ref |-> new]

\* pd.to_datetime of one cell: text and timestamps alike become timestamps.
to_datetime(cell) == [type |-> "datetime", day |-> cell.day]

\* df[col] = values: the column col written (added when absent), row by row.
SetColumn(df, col, values) ==
    [df EXCEPT !.cols = @ \cup {col},
               !.rows = [i \in 1..Len(@) |->
                           [k \in df.cols \cup {col} |->
                               IF k = col THEN values[i] ELSE df.rows[i][k]]]]

---------------------------------------------------------------------------
(* SalesAnalyzer: construction *)

required_cols ==
    <<"order_id", "customer_id", "order_date", "amount",
      "region", "product_category", "quantity">>

\* _validate_data: the required columns the frame lacks, in required order.
validate_data(df) == SelectSeq(required_cols, LAMBDA col : col \notin df.cols)

\* The record of a call: what was called, what it raised or returned and,
\* as history, how often the caller had rewritten its frame before.
Returned(op, arg, value) ==
    [op |-> op, arg |-> arg, raised |-> "none", value |-> value, after |-> mutations]

Raised(op, arg, error, value) ==
    [op |-> op, arg |-> arg, raised |-> error, value |-> value, after |-> mutations]

\* SalesAnalyzer.__init__(dataframe), the caller's frame being heap[Caller].
SalesAnalyzer_init ==
    /\ phase = "new"
    /\ LET cp == DataFrame_copy(heap, Caller)
           df0 == cp.heap[cp.ref]
       IN  /\ self_df' = cp.ref
           /\ given' = heap[Caller]
           /\ IF "order_date" \notin df0.cols
              THEN /\ heap' = cp.heap
                   /\ phase' = "failed"
                   /\ last' = Raised("__init__", 0, "KeyError", <<"order_date">>)
              ELSE LET df1 == SetColumn(df0, "order_date",
                                        [i \in 1..Len(df0.rows) |->
                                            to_datetime(df0.rows[i]["order_date"])])
                       missing == validate_data(df1)
                   IN  /\ heap' = [cp.heap EXCEPT ![cp.ref] = df1]
                       /\ IF missing # <<>>
                          THEN /\ phase' = "failed"
                               /\ last' = Raised("__init__", 0, "ValueError", missing)
                          ELSE /\ phase' = "ready"
                               /\ last' = Returned("__init__", 0, <<>>)
    /\ UNCHANGED <<callerView, mutations, clock, calls>>

---------------------------------------------------------------------------
(* SalesAnalyzer: the analyses, as functions of the stored frame *)

\* A summary whose total revenue is rounded to whole cents.
get_revenue_summary_rounded(df) ==
    LET amount == ColumnOf(df.rows, "amount")
    IN  [total_revenue |-> Round2(SumSeq(amount), 1),
         avg_order_value |-> mean(amount),
         median_order_value |-> median(amount),
         min_order_value |-> SeqMin(amount),
         max_order_value |-> SeqMax(amount),
         total_transactions |-> Len(df.rows),
         total_units_sold |-> SumSeq(ColumnOf(df.rows, "quantity"))]

get_revenue_summary(df) ==
    LET amount == ColumnOf(df.rows, "amount")
    IN  [total_revenue |-> SumSeq(amount),
         avg_order_value |-> mean(amount),
         median_order_value |-> median(amount),
         min_order_value |-> SeqMin(amount),
         max_order_value |-> SeqMax(amount),
         total_transactions |-> Len(df.rows),
         total_units_sold |-> SumSeq(ColumnOf(df.rows, "quantity"))]

\* An aggregation that reports the mean of a group as its sum.
agg_round_mean_as_sum(g) ==
    LET amount == ColumnOf(g.rows, "amount")
    IN  [sum |-> Round2(SumSeq(amount), Len(amount)),
         mean |-> Round2(SumSeq(amount), Len(amount)),
         count |-> Len(amount),
         quantity |-> SumSeq(ColumnOf(g.rows, "quantity")),
         customers |-> nunique(ColumnOf(g.rows, "customer_id"))]

\* .agg({'amount': ['sum', 'mean', 'count'], 'quantity': 'sum',
\*       'customer_id': 'nunique'}).round(2) of one group.
agg_round(g) ==
    LET amount == ColumnOf(g.rows, "amount")
    IN  [sum |-> Round2(SumSeq(amount), 1),
         mean |-> Round2(SumSeq(amount), Len(amount)),
         count |-> Len(amount),
         quantity |-> SumSeq(ColumnOf(g.rows, "quantity")),
         customers |-> nunique(ColumnOf(g.rows, "customer_id"))]

get_regional_analysis(df) ==
    LET groups == groupby(df.rows, "region")
        regional == [g \in 1..Len(groups) |->
                        LET a == agg_round(groups[g])
                        IN  [region |-> groups[g].key,
                             Revenue |-> a.sum,
                             Avg_Order_Value |-> a.mean,
                             Transactions |-> a.count,
                             Units_Sold |-> a.quantity,
                             Unique_Customers |-> a.customers]]
    IN  sort_values_descending(regional, "Revenue")

get_product_performance(df) ==
    LET groups == groupby(df.rows, "product_category")
        products == [g \in 1..Len(groups) |->
                        LET a == agg_round(groups[g])
                        IN  [product_category |-> groups[g].key,
                             Revenue |-> a.sum,
                             Avg_Price |-> a.mean,
                             Transactions |-> a.count,
                             Quantity_Sold |-> a.quantity,
                             Unique_Customers |-> a.customers]]
    IN  sort_values_descending(products, "Revenue")

\* A growth taken relative to the current row instead of the row before.
pct_change_100_of_current(prev, cur) ==
    IF cur = 0
    THEN IF prev = 0 THEN NaN ELSE Inf
    ELSE Num(RoundHalfEven((cur - prev) * 10000, cur), 100)

\* Series.pct_change() * 100, rounded to 2 decimals, at one row: prev is the
\* row before (revenues are not negative).
pct_change_100(prev, cur) ==
    IF prev = 0
    THEN IF cur = 0 THEN NaN ELSE Inf
    ELSE Num(RoundHalfEven((cur - prev) * 10000, prev), 100)

\* The year-months of the order dates, row by row.
dt_to_period_M(df) == [i \in 1..Len(df.rows) |-> to_period_M(df.rows[i]["order_date"])]

\* An assignment that also moves order_date to the first day of its month.
assign_year_month_truncating(df) ==
    SetColumn(SetColumn(df, "year_month", dt_to_period_M(df)),
              "order_date",
              [i \in 1..Len(df.rows) |->
                  Timestamp(SumSeq(SubSeq(DaysInMonth, 1, dt_to_period_M(df)[i].month - 1)))])

\* self.df['year_month'] = self.df['order_date'].dt.to_period('M')
assign_year_month(df) ==
    SetColumn(df, "year_month", dt_to_period_M(df))

\* get_monthly_trends: the frame as the method leaves it, and its result.
get_monthly_trends(df) ==
    LET df1 == assign_year_month(df)
        groups == groupby(df1.rows, "year_month")
        agg == [g \in 1..Len(groups) |-> agg_round(groups[g])]
        monthly == [g \in 1..Len(groups) |->
                       [year_month |-> groups[g].key,
                        Revenue |-> agg[g].sum,
                        Avg_Order_Value |-> agg[g].mean,
                        Transactions |-> agg[g].count,
                        Units |-> agg[g].quantity,
                        MoM_Growth |-> IF g = 1 THEN NaN
                                       ELSE pct_change_100(agg[g - 1].sum, agg[g].sum)]]
    IN  [df |-> df1, raised |-> "none", value |-> monthly]

\* Series.quantile(k/4), linear interpolation between the order statistics.
quantile(values, k) ==
    LET v == sort_series(values)
        n == Len(v)
        pos == (n - 1) * k
        lo == pos \div 4 + 1
        hi == Min(lo + 1, n)
    IN  Num(4 * v[lo] + (pos % 4) * (v[hi] - v[lo]), 4)

GreaterThan(x, q) == x * q.den > q.num

\* A segmentation whose thresholds are inclusive.
segment_inclusive(ltv, lifetime_value) ==
    LET AtLeast(q) == ltv * q.den >= q.num
    IN  IF AtLeast(quantile(lifetime_value, 3)) THEN "VIP"
        ELSE IF AtLeast(quantile(lifetime_value, 2)) THEN "Premium"
        ELSE IF AtLeast(quantile(lifetime_value, 1)) THEN "Standard"
        ELSE "New"

segment(ltv, lifetime_value) ==
    IF GreaterThan(ltv, quantile(lifetime_value, 3)) THEN "VIP"
    ELSE IF GreaterThan(ltv, quantile(lifetime_value, 2)) THEN "Premium"
    ELSE IF GreaterThan(ltv, quantile(lifetime_value, 1)) THEN "Standard"
    ELSE "New"

DayMin(s) == CHOOSE x \in Range(s) : \A y \in Range(s) : x <= y

DayMax(s) == CHOOSE x \in Range(s) : \A y \in Range(s) : x >= y

get_customer_segmentation(df) ==
    LET groups == groupby(df.rows, "customer_id")
        lifetime_value == [g \in 1..Len(groups) |->
                              SumSeq(ColumnOf(groups[g].rows, "amount"))]
        reference_date == DayMax([i \in 1..Len(df.rows) |-> df.rows[i]["order_date"].day])
        customer_stats ==
            [g \in 1..Len(groups) |->
                LET days == [i \in 1..Len(groups[g].rows) |->
                                groups[g].rows[i]["order_date"].day]
                IN  [customer_id |-> groups[g].key,
                     lifetime_value |-> lifetime_value[g],
                     purchase_count |-> Len(groups[g].rows),
                     avg_purchase |-> Num(lifetime_value[g], Len(groups[g].rows)),
                     first_purchase |-> [type |-> "datetime", day |-> DayMin(days)],
                     last_purchase |-> [type |-> "datetime", day |-> DayMax(days)],
                     total_units |-> SumSeq(ColumnOf(groups[g].rows, "quantity")),
                     recency_days |-> reference_date - DayMax(days),
                     segment |-> segment(lifetime_value[g], lifetime_value)]]
    IN  sort_values_descending(customer_stats, "lifetime_value")

\* Series.mean() of the growth column: the NaN entries are skipped.
growth_mean(growth) ==
    LET known == SelectSeq(growth, LAMBDA x : x.kind # "nan")
    IN  IF known = <<>> THEN NaN
        ELSE IF \E i \in DOMAIN known : known[i].kind = "inf" THEN Inf
        ELSE Num(SumSeq([i \in 1..Len(known) |-> known[i].num]), 100 * Len(known))

\* The dictionary get_key_metrics returns, from the monthly trends m, the
\* number of distinct customers and the number of those with several orders.
\* The sum of an empty object column is the int 0, and 0 / 0 raises; the sum
\* of an empty float column is a numpy float, and 0.0 / 0 is NaN.
key_metrics(df, m, Revenue, customers, repeat) ==
    IF customers = 0 /\ df.amount_dtype = "object"
    THEN [df |-> m.df, raised |-> "ZeroDivisionError", value |-> <<>>]
    ELSE [df |-> m.df, raised |-> "none", value |->
            [YTD_Revenue |-> SumSeq(Revenue),
             Avg_Monthly_Revenue |-> mean(Revenue),
             Growth_Rate |-> growth_mean(ColumnOf(m.value, "MoM_Growth")),
             Customer_Count |-> customers,
             Revenue_Per_Customer |->
                 IF customers = 0 THEN NaN
                 ELSE Num(SumSeq(ColumnOf(df.rows, "amount")), customers),
             Repeat_Customer_Rate |->
                 IF customers = 0 THEN NaN ELSE Num(repeat * 100, customers)]]

\* The number of groups.
repeat_customers_any_order(sizes) == Cardinality({g \in DOMAIN sizes : Len(sizes[g].rows) >= 1})

\* (self.df.groupby('customer_id').size() > 1).sum()
repeat_customers(sizes) == Cardinality({g \in DOMAIN sizes : Len(sizes[g].rows) > 1})

\* get_key_metrics: the frame as the method leaves it, and its result.
get_key_metrics(df) ==
    key_metrics(df, get_monthly_trends(df),
                ColumnOf(get_monthly_trends(df).value, "Revenue"),
                nunique(ColumnOf(df.rows, "customer_id")),
                repeat_customers(groupby(df.rows, "customer_id")))

\* The first n rows, in the frame's order.
nlargest_unsorted(rows, n, by) == SubSeq(rows, 1, Min(n, Len(rows)))

\* DataFrame.nlargest(n, by) (keep='first'): the n rows greatest in column
\* by, descending, rows equal there in the frame's order.
nlargest(rows, n, by) ==
    LET sorted == sort_values_descending(rows, by)
    IN  SubSeq(sorted, 1, Min(n, Len(sorted)))

get_top_customers(df, n) ==
    LET groups == groupby(df.rows, "customer_id")
        top == [g \in 1..Len(groups) |->
                   LET amount == ColumnOf(groups[g].rows, "amount")
                   IN  [customer_id |-> groups[g].key,
                        total_spent |-> SumSeq(amount),
                        purchase_count |-> Len(amount),
                        avg_purchase |-> Num(SumSeq(amount), Len(amount)),
                        total_units |-> SumSeq(ColumnOf(groups[g].rows, "quantity"))]]
    IN  nlargest(top, n, "total_spent")

\* get_cohort_analysis: the columns it writes into its copy customer_cohort.
cohort_columns(customer_cohort) ==
    LET first(c) == DayMin([i \in 1..Len(SelectSeq(customer_cohort.rows,
                                                   LAMBDA r : r["customer_id"] = c)) |->
                               SelectSeq(customer_cohort.rows,
                                         LAMBDA r : r["customer_id"] = c)[i]["order_date"].day])
        rows == customer_cohort.rows
        cohort == SetColumn(customer_cohort, "cohort_month",
                      [i \in 1..Len(rows) |->
                          to_period_M(Timestamp(first(rows[i]["customer_id"])))])
    IN  SetColumn(cohort, "order_month", dt_to_period_M(customer_cohort))

\* The number of orders per cohort month.
cohort_sizes_counting_orders(customer_cohort) ==
    LET groups == groupby(customer_cohort.rows, "cohort_month")
    IN  [g \in 1..Len(groups) |->
            [cohort_month |-> groups[g].key,
             customer_id |-> Len(groups[g].rows)]]

\* .groupby('cohort_month').agg({'customer_id': 'nunique'}).round(0)
cohort_sizes(customer_cohort) ==
    LET groups == groupby(customer_cohort.rows, "cohort_month")
    IN  [g \in 1..Len(groups) |->
            [cohort_month |-> groups[g].key,
             customer_id |-> nunique(ColumnOf(groups[g].rows, "customer_id"))]]

\* float64 arithmetic, for the one place where its rounding decides a
\* result: the comparison of the latest revenue with the mean.  A natural
\* number is a sequence of bits, the most significant first; a float64 is
\* [m, e], m its MantissaBits mantissa bits and e the exponent of the last
\* of them, and [<<>>, 0] is 0.0.
MantissaBits == 53

\* Bit sequences are added and divided a byte at a time.
ByteBits == 8

Zeros(n) == [i \in 1..n |-> 0]

\* b without its leading zeros.
Strip(b) ==
    LET ones == {i \in DOMAIN b : b[i] = 1}
    IN  IF ones = {} THEN <<>>
        ELSE SubSeq(b, CHOOSE i \in ones : \A j \in ones : i <= j, Len(b))

\* b with leading zeros up to a whole number of bytes.
Bytes(b) == Zeros((ByteBits - (Len(b) % ByteBits)) % ByteBits) \o b

\* The w bits of the number v < 2^w.
BitsOf(v, w) == [i \in 1..w |-> (v \div 2^(w - i)) % 2]

\* The number the byte b[from .. from + 7] is.
ByteAt(b, from) ==
    b[from] * 128 + b[from + 1] * 64 + b[from + 2] * 32 + b[from + 3] * 16
    + b[from + 4] * 8 + b[from + 5] * 4 + b[from + 6] * 2 + b[from + 7]

\* a + b + carry, of two sequences of the same whole number of bytes.
RECURSIVE AddBits(_, _, _)
AddBits(a, b, carry) ==
    IF a = <<>> THEN (IF carry = 1 THEN <<1>> ELSE <<>>)
    ELSE LET k == Len(a) - ByteBits
             s == ByteAt(a, k + 1) + ByteAt(b, k + 1) + carry
         IN  AddBits(SubSeq(a, 1, k), SubSeq(b, 1, k), s \div 2^ByteBits)
                \o BitsOf(s % 2^ByteBits, ByteBits)

\* Quotient and remainder of a whole number of bytes by the small number n.
RECURSIVE LongDiv(_, _, _, _)
LongDiv(b, n, rem, acc) ==
    IF b = <<>> THEN [q |-> acc, rem |-> rem]
    ELSE LET v == rem * 2^ByteBits + ByteAt(b, 1)
         IN  LongDiv(SubSeq(b, ByteBits + 1, Len(b)), n, v % n,
                     acc \o BitsOf(v \div n, ByteBits))

\* The float64 nearest to b * 2^e (plus less than one unit of b when sticky),
\* ties to the even mantissa.
float64_round(b, sticky, e) ==
    IF b = <<>> THEN [m |-> <<>>, e |-> 0]
    ELSE IF Len(b) <= MantissaBits
    THEN [m |-> b \o Zeros(MantissaBits - Len(b)), e |-> e - (MantissaBits - Len(b))]
    ELSE LET keep == SubSeq(b, 1, MantissaBits)
             rest == SubSeq(b, MantissaBits + 2, Len(b))
             more == sticky \/ \E i \in DOMAIN rest : rest[i] = 1
             up == b[MantissaBits + 1] = 1 /\ (more \/ keep[MantissaBits] = 1)
             m == IF up THEN Strip(AddBits(Bytes(keep), Bytes(Zeros(MantissaBits)), 1))
                  ELSE keep
             e1 == e + (Len(b) - MantissaBits)
         IN  IF Len(m) > MantissaBits
             THEN [m |-> SubSeq(m, 1, MantissaBits), e |-> e1 + 1]
             ELSE [m |-> m, e |-> e1]

\* x / n for a count n.
float64_div(x, n) ==
    LET d == LongDiv(Bytes(x.m \o Zeros(ByteBits)), n, 0, <<>>)
    IN  float64_round(Strip(d.q), d.rem # 0, x.e - ByteBits)

\* The float64 of an amount of whole cents, cents / 100.
float64_of_cents(cents) ==
    LET d == LongDiv(BitsOf(cents, 3 * ByteBits) \o Zeros(8 * ByteBits), 100, 0, <<>>)
    IN  float64_round(Strip(d.q), d.rem # 0, 0 - 8 * ByteBits)

float64_add(x, y) ==
    IF x.m = <<>> THEN y
    ELSE IF y.m = <<>> THEN x
    ELSE LET e == Min(x.e, y.e)
             a == x.m \o Zeros(x.e - e)
             b == y.m \o Zeros(y.e - e)
             n == IF Len(a) > Len(b) THEN Len(a) ELSE Len(b)
         IN  float64_round(Strip(AddBits(Bytes(Zeros(n - Len(a)) \o a),
                                         Bytes(Zeros(n - Len(b)) \o b), 0)), FALSE, e)

\* a > b for two bit sequences of one length.
BitsGreater(a, b) ==
    \E i \in DOMAIN a : a[i] > b[i] /\ \A j \in 1..(i - 1) : a[j] = b[j]

float64_gt(x, y) ==
    IF x.m = <<>> THEN FALSE
    ELSE IF y.m = <<>> THEN TRUE
    ELSE IF x.e # y.e THEN x.e > y.e
    ELSE BitsGreater(x.m, y.m)

\* The sum of a float64 column, added up from its first value on.
RECURSIVE float64_sum(_, _)
float64_sum(values, acc) ==
    IF values = <<>> THEN acc
    ELSE float64_sum(Tail(values), float64_add(acc, values[1]))

\* Series.mean() in float64: the sum divided by the count.
float64_mean(values) == float64_div(float64_sum(values, [m |-> <<>>, e |-> 0]), Len(values))

\* The Revenue column as float64: its values are whole cents.
float64_column(Revenue) ==
    [i \in 1..Len(Revenue) |-> float64_of_cents(Revenue[i] \div UnitsPerCent)]

\* Series.std() (ddof = 1): NaN of a single value, else the square root of
\* num/den, kept as that fraction.
std_of(n, sum, squares) ==
    IF n < 2 THEN NaN
    ELSE [kind |-> "sqrt", num |-> n * squares - sum * sum, den |-> n * (n - 1)]

std(values) ==
    std_of(Len(values), SumSeq(values),
           SumSeq([i \in 1..Len(values) |-> values[i] * values[i]]))

\* std / mean: NaN when the standard deviation is, and 0 / 0 = NaN when the
\* mean of the (non-negative) revenues is 0.
ratio(s, m) ==
    IF s.kind = "nan" \/ m.kind = "nan" \/ m.num = 0 THEN NaN
    ELSE [kind |-> "ratio", std |-> s, mean |-> m]

\* The dictionary get_sales_forecast_indicators returns, from the monthly
\* trends m: iloc[-1] of an empty Revenue column raises.
forecast_indicators(m, Revenue, n) ==
    IF n = 0
    THEN [df |-> m.df, raised |-> "IndexError", value |-> <<>>]
    ELSE [df |-> m.df, raised |-> "none", value |->
            [latest_month_revenue |-> Revenue[n],
             previous_month_revenue |-> IF n > 1 THEN Revenue[n - 1] ELSE 0,
             avg_monthly |-> mean(Revenue),
             std_dev |-> std(Revenue),
             trend_direction |->
                 IF float64_gt(float64_column(Revenue)[n],
                               float64_mean(float64_column(Revenue)))
                 THEN "UP" ELSE "DOWN",
             volatility |-> ratio(std(Revenue), mean(Revenue))]]

get_sales_forecast_indicators(df) ==
    forecast_indicators(get_monthly_trends(df),
                        ColumnOf(get_monthly_trends(df).value, "Revenue"),
                        Len(get_monthly_trends(df).value))

\* The format ',.2f' of an amount: its cents, rounded.
FormatMoney(x) ==
    IF x.kind = "num" THEN Num(RoundHalfEven(x.num, x.den * UnitsPerCent), 100) ELSE x

\* The format '.2f' of a percentage.
FormatPercent(x) ==
    IF x.kind = "num" THEN Num(RoundHalfEven(x.num * 100, x.den), 100) ELSE x

head(rows, n) == SubSeq(rows, 1, Min(n, Len(rows)))

\* The fields of the report's text.
report(now, revenue, regional, products, kpis) ==
    [date |-> now \div TicksPerDay,
     total_revenue |-> FormatMoney(Num(revenue.total_revenue, 1)),
     avg_order_value |-> FormatMoney(revenue.avg_order_value),
     total_transactions |-> revenue.total_transactions,
     total_units_sold |-> revenue.total_units_sold,
     YTD_Revenue |-> FormatMoney(Num(kpis.YTD_Revenue, 1)),
     Avg_Monthly_Revenue |-> FormatMoney(kpis.Avg_Monthly_Revenue),
     Growth_Rate |-> FormatPercent(kpis.Growth_Rate),
     Customer_Count |-> kpis.Customer_Count,
     Revenue_Per_Customer |-> FormatMoney(kpis.Revenue_Per_Customer),
     Repeat_Customer_Rate |-> FormatPercent(kpis.Repeat_Customer_Rate),
     regional |-> regional,
     products |-> head(products, 5)]

report_or_error(now, revenue, regional, products, k) ==
    IF k.raised # "none" THEN k
    ELSE [df |-> k.df, raised |-> "none",
          value |-> report(now, revenue, regional, products, k.value)]

\* generate_report: the frame as the method leaves it, and the text's fields.
generate_report(df, now) ==
    report_or_error(now, get_revenue_summary(df), get_regional_analysis(df),
                    get_product_performance(df), get_key_metrics(df))

---------------------------------------------------------------------------
(* The datasets a caller may hand over *)

\* 2024-01-01, 2024-01-21 and 2024-03-01.
Days == {0, 20, 60}

Amounts == 0..MaxAmount

Record(c, d, a, r, p, q) ==
    [customer_id |-> c, order_date |-> d, amount |-> a,
     region |-> r, product_category |-> p, quantity |-> q]

\* The frame with the columns cols whose i-th row holds the record recs[i]
\* and the order_id i.
Frame(cols, recs, dtype) ==
    [cols |-> cols,
     rows |-> [i \in 1..Len(recs) |->
                 [k \in cols |-> IF k = "order_id" THEN i ELSE recs[i][k]]],
     amount_dtype |-> dtype]

AllCols == Range(required_cols)

Frames(Recs, n) == {Frame(AllCols, recs, "float64") : recs \in SeqsUpTo(Recs, n)}

\* The frame without rows whose columns were built from empty lists.
EmptyObjectFrame == Frame(AllCols, <<>>, "object")

NoCall == [op |-> "none", arg |-> 0, raised |-> "none", value |-> <<>>, after |-> 0]

InitWith(Datasets) ==
    /\ \E ds \in Datasets :
          /\ heap = [i \in 1..3 |-> IF i = Caller THEN ds ELSE NoFrame]
          /\ callerView = ds
    /\ self_df = 0
    /\ phase = "new"
    /\ last = NoCall
    /\ given = NoFrame
    /\ mutations = 0
    /\ clock = 0
    /\ calls = <<>>

\* Frames with any subset of the required columns, of one or no row.
ValidationRecs ==
    {Record(CustomerIds[1], d, MaxAmount, RegionNames[1], CategoryNames[1], 1) :
        d \in {Timestamp(0), DateText(20)}}

ValidationDatasets ==
    {Frame(cols, recs, "float64") :
        cols \in SUBSET AllCols, recs \in SeqsUpTo(ValidationRecs, 1)}

InitValidate == InitWith(ValidationDatasets)

\* Frames whose rows differ in region, product category, amount and
\* quantity: every region, every category and every quantity meets every
\* amount above 0.
RollupRecs ==
    {Record(CustomerIds[1], Timestamp(0), a, RegionNames[r],
            CategoryNames[1 + ((r + a) % Len(CategoryNames))], r) :
        a \in Amounts \ {0}, r \in DOMAIN RegionNames}

InitRollup == InitWith(Frames(RollupRecs, MaxRows) \cup {EmptyObjectFrame})

\* Frames whose rows differ in order date and amount.
MonthlyRecs ==
    {Record(CustomerIds[1], Timestamp(d), a, RegionNames[1], CategoryNames[1], 1) :
        d \in Days, a \in Amounts}

InitMonthly == InitWith(Frames(MonthlyRecs, MaxRows))

\* Frames of as many rows as there are customers, or fewer, that differ in
\* customer and amount, the customer of the i-th row being one of the first
\* i customers.
CustomerDatasets ==
    UNION {{Frame(AllCols,
                  [i \in 1..k |-> Record(CustomerIds[c[i]], Timestamp(0), a[i],
                                         RegionNames[1], CategoryNames[1], 1)],
                  "float64") :
               c \in {f \in [1..k -> DOMAIN CustomerIds] : \A i \in 1..k : f[i] <= i},
               a \in [1..k -> Amounts]} :
           k \in 0..Len(CustomerIds)}

InitCustomers == InitWith(CustomerDatasets)

\* Frames whose rows differ in month and amount: orders of 0.01, 0.05, 0.09
\* and 0.35 on 2024-01-01, 2024-02-10 and 2024-03-01.
ForecastDays == {0, 40, 60}

ForecastCents == {1, 5, 9, 35}

ForecastRecs ==
    {Record(CustomerIds[1], Timestamp(d), c * UnitsPerCent, RegionNames[1],
            CategoryNames[1], 1) :
        d \in ForecastDays, c \in ForecastCents}

InitForecast == InitWith(Frames(ForecastRecs, MaxRows))

\* Frames whose rows differ in customer and order date.
CohortRecs ==
    {Record(CustomerIds[c], Timestamp(d), MaxAmount, RegionNames[1], CategoryNames[1], 1) :
        c \in 1..(Len(CustomerIds) - 1), d \in Days}

InitCohort == InitWith(Frames(CohortRecs, MaxRows))

\* Frames whose rows differ in every column, the dates given as text or as
\* timestamps, and both frames without rows.
MixedRecs ==
    {Record(CustomerIds[1], DateText(20), MaxAmount, RegionNames[1], CategoryNames[1], 1),
     Record(CustomerIds[2], Timestamp(60), MaxAmount - 1, RegionNames[2], CategoryNames[2], 2)}

Init ==
    InitWith(Frames(MixedRecs, MaxRows)
             \cup {EmptyObjectFrame, Frame(AllCols, <<>>, "float64")})

---------------------------------------------------------------------------
(* SalesAnalyzer: the calls *)

Frame_of_self == heap[self_df]

\* A call that leaves the stored frame as it is.
Reads(op, arg, value) ==
    /\ phase = "ready"
    /\ last' = Returned(op, arg, value)
    /\ UNCHANGED <<heap, self_df, phase, given, callerView, mutations, clock, calls>>

\* A call that goes through get_monthly_trends: r is [df, raised, value].
Writes(op, r) ==
    /\ phase = "ready"
    /\ heap' = [heap EXCEPT ![self_df] = r.df]
    /\ last' = [op |-> op, arg |-> 0, raised |-> r.raised, value |-> r.value,
                after |-> mutations]
    /\ UNCHANGED <<self_df, phase, given, callerView, mutations, clock, calls>>

Call_get_revenue_summary ==
    Reads("get_revenue_summary", 0, get_revenue_summary(Frame_of_self))

Call_get_regional_analysis ==
    Reads("get_regional_analysis", 0, get_regional_analysis(Frame_of_self))

Call_get_product_performance ==
    Reads("get_product_performance", 0, get_product_performance(Frame_of_self))

Call_get_monthly_trends ==
    Writes("get_monthly_trends", get_monthly_trends(Frame_of_self))

Call_get_customer_segmentation ==
    Reads("get_customer_segmentation", 0, get_customer_segmentation(Frame_of_self))

Call_get_key_metrics ==
    Writes("get_key_metrics", get_key_metrics(Frame_of_self))

Call_get_top_customers ==
    \E n \in 1..MaxTopN :
        Reads("get_top_customers", n, get_top_customers(Frame_of_self, n))

\* A get_cohort_analysis without the copy: the columns go into self.df.
Call_get_cohort_analysis_in_place ==
    /\ phase = "ready"
    /\ heap' = [heap EXCEPT ![self_df] = cohort_columns(heap[self_df])]
    /\ last' = Returned("get_cohort_analysis", 0,
                        cohort_sizes(cohort_columns(heap[self_df])))
    /\ UNCHANGED <<self_df, phase, given, callerView, mutations, clock, calls>>

\* get_cohort_analysis: the copy is a local of the call, dropped at return
\* unless the analyzer itself refers to it.
Call_get_cohort_analysis ==
    /\ phase = "ready"
    /\ LET cp == DataFrame_copy(heap, self_df)
           customer_cohort == cohort_columns(cp.heap[cp.ref])
       IN  /\ heap' = [cp.heap EXCEPT ![cp.ref] =
                          IF cp.ref = self_df THEN customer_cohort ELSE NoFrame]
           /\ last' = Returned("get_cohort_analysis", 0, cohort_sizes(customer_cohort))
    /\ UNCHANGED <<self_df, phase, given, callerView, mutations, clock, calls>>

Call_get_sales_forecast_indicators ==
    Writes("get_sales_forecast_indicators", get_sales_forecast_indicators(Frame_of_self))

Call_generate_report ==
    Writes("generate_report", generate_report(Frame_of_self, clock))

\* The caller rewrites its own frame after the analyzer was built: it sets
\* every amount to 0, or drops every row.
CallerMutates ==
    /\ phase = "ready"
    /\ mutations < MaxMutations
    /\ \E new \in {SetColumn(heap[Caller], "amount", [i \in 1..Len(heap[Caller].rows) |-> 0]),
                   [heap[Caller] EXCEPT !.rows = <<>>]} :
          /\ heap' = [heap EXCEPT ![Caller] = new]
          /\ callerView' = new
    /\ mutations' = mutations + 1
    /\ UNCHANGED <<self_df, phase, last, given, clock, calls>>

NextValidate == SalesAnalyzer_init

SpecValidate == InitValidate /\ [][NextValidate]_vars

NextRollup ==
    \/ SalesAnalyzer_init
    \/ Call_get_revenue_summary
    \/ Call_get_regional_analysis
    \/ Call_get_product_performance

SpecRollup == InitRollup /\ [][NextRollup]_vars

NextMonthly ==
    \/ SalesAnalyzer_init
    \/ Call_get_monthly_trends

SpecMonthly == InitMonthly /\ [][NextMonthly]_vars

NextCustomers ==
    \/ SalesAnalyzer_init
    \/ Call_get_customer_segmentation

SpecCustomers == InitCustomers /\ [][NextCustomers]_vars

NextForecast ==
    \/ SalesAnalyzer_init
    \/ Call_get_sales_forecast_indicators

SpecForecast == InitForecast /\ [][NextForecast]_vars

NextCohort ==
    \/ SalesAnalyzer_init
    \/ Call_get_cohort_analysis

SpecCohort == InitCohort /\ [][NextCohort]_vars

NextTop ==
    \/ SalesAnalyzer_init
    \/ Call_get_top_customers
    \/ Call_get_key_metrics

SpecTop == InitCustomers /\ [][NextTop]_vars

Next ==
    \/ SalesAnalyzer_init
    \/ Call_get_revenue_summary
    \/ Call_get_regional_analysis
    \/ Call_get_product_performance
    \/ Call_get_monthly_trends
    \/ Call_get_customer_segmentation
    \/ Call_get_key_metrics
    \/ Call_get_top_customers
    \/ Call_get_cohort_analysis
    \/ Call_get_sales_forecast_indicators
    \/ Call_generate_report
    \/ CallerMutates

Spec == Init /\ [][Next]_vars

---------------------------------------------------------------------------
(* generate_sample_data *)

\* The i-th number of the stream that np.random.seed(seed) starts: a fixed
\* function of seed and i (a linear congruential stand-in for numpy's
\* Mersenne Twister, which the module does not choose).
RECURSIVE Stream(_, _)
Stream(seed, i) == IF i = 0 THEN seed ELSE (Stream(seed, i - 1) * 75 + 74) % 65537

\* np.random.randint(low, high) of one number of the stream.
randint(low, high, raw) == low + (raw % (high - low))

regions == <<"North", "South", "East", "West", "Central">>

categories == <<"Electronics", "Software", "Services", "Hardware", "Consulting">>

\* generate_sample_data(n_records, seed), called when datetime.now() is now.
\* The stream is drawn in the order of the source: the days, the customers,
\* the amounts, the regions, the categories, the quantities.
generate_sample_data(n_records, seed, now) ==
    [cols |-> Range(required_cols),
     rows |-> [i \in 1..n_records |->
        [order_id |-> i,
         customer_id |-> <<"CUST", randint(100, 500, Stream(seed, n_records + i))>>,
         order_date |-> [type |-> "datetime",
                         tick |-> now - randint(0, 365, Stream(seed, i)) * TicksPerDay],
         amount |-> Round2(1 + Stream(seed, 2 * n_records + i), 1),
         region |-> regions[1 + (Stream(seed, 3 * n_records + i) % Len(regions))],
         product_category |->
             categories[1 + (Stream(seed, 4 * n_records + i) % Len(categories))],
         quantity |-> randint(1, 20, Stream(seed, 5 * n_records + i))]],
     amount_dtype |-> "float64"]

Call_generate_sample_data ==
    /\ Len(calls) < 2
    /\ \E n_records \in 0..MaxRecords, seed \in 0..MaxSeed :
          calls' = Append(calls, [n_records |-> n_records, seed |-> seed, at |-> clock,
                                  data |-> generate_sample_data(n_records, seed, clock)])
    /\ UNCHANGED <<heap, self_df, phase, last, given, callerView, mutations, clock>>

\* Time passes.
Tick ==
    /\ clock < MaxClock
    /\ clock' = clock + 1
    /\ UNCHANGED <<heap, self_df, phase, last, given, callerView, mutations, calls>>

InitGen == InitWith({EmptyObjectFrame})

NextGen ==
    \/ Call_generate_sample_data
    \/ Tick

SpecGen == InitGen /\ [][NextGen]_vars

---------------------------------------------------------------------------
(* C1 *)

MissingOf(df) == AllCols \ df.cols

\* C1: constructing from a dataset that lacks a non-empty set S of required
\* columns fails with the missing-columns ValueError, which names exactly
\* the columns of S -- for every S, those holding order_date included.
C1_MissingColumnsError ==
    (phase # "new" /\ MissingOf(given) # {}) =>
        /\ phase = "failed"
        /\ last.raised = "ValueError"
        /\ Range(last.value) = MissingOf(given)

---------------------------------------------------------------------------
(* C2 *)

\* C2: generate_sample_data is deterministic in its arguments: two calls with
\* the same seed and n_records return identical datasets in every column,
\* order_date included, whatever the time of each call; and the dataset has
\* exactly n_records rows.
C2_Deterministic ==
    /\ \A i \in DOMAIN calls : Len(calls[i].data.rows) = calls[i].n_records
    /\ \A i, j \in DOMAIN calls :
          (calls[i].seed = calls[j].seed /\ calls[i].n_records = calls[j].n_records)
              => calls[i].data = calls[j].data

---------------------------------------------------------------------------
(* What a fresh analyzer over the dataset handed to __init__ answers *)

FreshFrame ==
    [given EXCEPT !.rows = [i \in 1..Len(@) |->
        [@[i] EXCEPT !["order_date"] = Timestamp(@.day)]]]

AsCall(op, arg, r, after) ==
    [op |-> op, arg |-> arg, raised |-> r.raised, value |-> r.value, after |-> after]

FreshCall(op, arg, after) ==
    CASE op = "get_revenue_summary" ->
           [op |-> op, arg |-> arg, raised |-> "none", after |-> after,
            value |-> get_revenue_summary(FreshFrame)]
      [] op = "get_regional_analysis" ->
           [op |-> op, arg |-> arg, raised |-> "none", after |-> after,
            value |-> get_regional_analysis(FreshFrame)]
      [] op = "get_product_performance" ->
           [op |-> op, arg |-> arg, raised |-> "none", after |-> after,
            value |-> get_product_performance(FreshFrame)]
      [] op = "get_customer_segmentation" ->
           [op |-> op, arg |-> arg, raised |-> "none", after |-> after,
            value |-> get_customer_segmentation(FreshFrame)]
      [] op = "get_top_customers" ->
           [op |-> op, arg |-> arg, raised |-> "none", after |-> after,
            value |-> get_top_customers(FreshFrame, arg)]
      [] op = "get_cohort_analysis" ->
           [op |-> op, arg |-> arg, raised |-> "none", after |-> after,
            value |-> cohort_sizes(cohort_columns(FreshFrame))]
      [] op = "get_monthly_trends" ->
           AsCall(op, arg, get_monthly_trends(FreshFrame), after)
      [] op = "get_key_metrics" ->
           AsCall(op, arg, get_key_metrics(FreshFrame), after)
      [] op = "get_sales_forecast_indicators" ->
           AsCall(op, arg, get_sales_forecast_indicators(FreshFrame), after)
      [] op = "generate_report" ->
           AsCall(op, arg, generate_report(FreshFrame, clock), after)

Analysed == phase = "ready" /\ last.op # "__init__"

---------------------------------------------------------------------------
(* C3 *)

\* C3: the analyzer works on a private copy: construction and the analyses
\* leave the caller's frame as the caller wrote it, and what the caller
\* writes into its frame after construction changes no later result.
C3_PrivateCopy ==
    /\ heap[Caller] = callerView
    /\ (Analysed /\ last.after > 0) => last = FreshCall(last.op, last.arg, last.after)

C3_Witness ==
    /\ Analysed
    /\ last.after > 0
    /\ last.op = "get_customer_segmentation"
    /\ Len(last.value) > 1
    /\ heap[Caller].rows # given.rows
    /\ "year_month" \in heap[self_df].cols

---------------------------------------------------------------------------
(* C4 *)

\* C4: the analyses are idempotent and order-independent: after any sequence
\* of calls, each call returns what it would return as the first call on a
\* fresh analyzer over the same dataset.
C4_Idempotent == Analysed => last = FreshCall(last.op, last.arg, last.after)

C4_Witness ==
    /\ Analysed
    /\ last.op = "get_customer_segmentation"
    /\ "year_month" \in heap[self_df].cols
    /\ \E i, j \in DOMAIN last.value :
          last.value[i].first_purchase # last.value[j].last_purchase

---------------------------------------------------------------------------
(* C5 *)

\* C5: every analysis is total over a validly constructed analyzer: on any
\* dataset with the seven columns, the zero-row dataset included, each
\* returns a result and none ends in an uncaught error.
C5_Total == phase = "ready" => last.raised = "none"

---------------------------------------------------------------------------
(* C6 *)

GivenColumn(col) == ColumnOf(given.rows, col)

\* C6: get_revenue_summary returns total_revenue = the sum of amount over all
\* rows, total_transactions = the number of rows, total_units_sold = the sum
\* of quantity; for the zero-row dataset the first two are 0.
C6_RevenueSummary ==
    (Analysed /\ last.op = "get_revenue_summary") =>
        /\ last.value.total_revenue = SumSeq(GivenColumn("amount"))
        /\ last.value.total_transactions = Len(given.rows)
        /\ last.value.total_units_sold = SumSeq(GivenColumn("quantity"))
        /\ given.rows = <<>> =>
              last.value.total_revenue = 0 /\ last.value.total_transactions = 0

C6_Witness ==
    /\ Analysed
    /\ last.op = "get_revenue_summary"
    /\ Len(given.rows) = MaxRows
    /\ last.value.total_revenue % UnitsPerCent # 0
    /\ last.value.total_units_sold > last.value.total_transactions

---------------------------------------------------------------------------
(* C7 *)

Abs(x) == IF x < 0 THEN 0 - x ELSE x

Rollup == Analysed /\ last.op \in {"get_regional_analysis", "get_product_performance"}

RollupKey == IF last.op = "get_regional_analysis" THEN "region" ELSE "product_category"

\* The rows of the dataset handed over whose group key is k.
GivenGroup(k) == SelectSeq(given.rows, LAMBDA row : row[RollupKey] = k)

OneRowPerKey ==
    /\ {last.value[g][RollupKey] : g \in DOMAIN last.value} = Range(GivenColumn(RollupKey))
    /\ Len(last.value) = Cardinality(Range(GivenColumn(RollupKey)))

\* C7, as claimed: the groups partition the rows, so the per-group Revenue
\* sums to total_revenue, the per-group Transactions sum to the row count,
\* and there is one result row per distinct key.
C7_Partition ==
    Rollup =>
        /\ SumSeq(ColumnOf(last.value, "Revenue")) = SumSeq(GivenColumn("amount"))
        /\ SumSeq(ColumnOf(last.value, "Transactions")) = Len(given.rows)
        /\ OneRowPerKey

\* C7, amended: there is one result row per distinct key, its Transactions
\* the number of rows with that key (so they sum to the row count) and its
\* Revenue the sum of their amounts rounded to a whole cent; the Revenues
\* therefore sum to total_revenue up to half a cent per group.
C7_PartitionRounded ==
    Rollup =>
        /\ OneRowPerKey
        /\ SumSeq(ColumnOf(last.value, "Transactions")) = Len(given.rows)
        /\ \A g \in DOMAIN last.value :
              LET rows == GivenGroup(last.value[g][RollupKey])
              IN  /\ last.value[g].Transactions = Len(rows)
                  /\ last.value[g].Revenue % UnitsPerCent = 0
                  /\ 2 * Abs(last.value[g].Revenue - SumSeq(ColumnOf(rows, "amount")))
                        <= UnitsPerCent
        /\ 2 * Abs(SumSeq(ColumnOf(last.value, "Revenue")) - SumSeq(GivenColumn("amount")))
              <= UnitsPerCent * Len(last.value)

C7_Witness ==
    /\ Rollup
    /\ Len(last.value) > 1
    /\ \E g \in DOMAIN last.value : last.value[g].Transactions > 1
    /\ SumSeq(ColumnOf(last.value, "Revenue")) # SumSeq(GivenColumn("amount"))

---------------------------------------------------------------------------
(* C8 *)

\* C8: the rows of get_regional_analysis and of get_product_performance are
\* in non-increasing order of Revenue, ties included.
C8_DescendingRevenue ==
    Rollup =>
        \A g \in 1..(Len(last.value) - 1) :
            last.value[g].Revenue >= last.value[g + 1].Revenue

C8_Witness ==
    /\ Rollup
    /\ Len(last.value) = 3
    /\ last.value[1].Revenue = last.value[2].Revenue
    /\ last.value[2].Revenue > last.value[3].Revenue
    /\ last.value[1].Revenue > SumSeq(ColumnOf(GivenGroup(last.value[1][RollupKey]), "amount"))

---------------------------------------------------------------------------
(* C9 *)

\* The first days of the months of 2024, counted from 2024-01-01.
MonthStarts == <<0, 31, 60, 91, 121, 152, 182, 213, 244, 274, 305, 335>>

CalendarMonth(cell) ==
    [year |-> 2024,
     month |-> Cardinality({m \in DOMAIN MonthStarts : MonthStarts[m] <= cell.day})]

Monthly == Analysed /\ last.op = "get_monthly_trends"

\* One row per calendar month with an order, in chronological order, the
\* growth of the first row null.
MonthlyRows ==
    /\ {last.value[g].year_month : g \in DOMAIN last.value}
          = {CalendarMonth(given.rows[i]["order_date"]) : i \in DOMAIN given.rows}
    /\ \A g \in 1..(Len(last.value) - 1) :
          PeriodOrdinal(last.value[g].year_month) < PeriodOrdinal(last.value[g + 1].year_month)
    /\ Len(last.value) > 0 => last.value[1].MoM_Growth.kind = "nan"

\* C9, as claimed: [...] and the growth of every later row is exactly
\* (its revenue - the revenue of the row before) / that revenue * 100.
C9_MonthlyGrowth ==
    Monthly =>
        /\ MonthlyRows
        /\ \A g \in 2..Len(last.value) :
              LET growth == last.value[g].MoM_Growth
                  cur == last.value[g].Revenue
                  prev == last.value[g - 1].Revenue
              IN  /\ growth.kind = "num"
                  /\ growth.num * prev = (cur - prev) * 100 * growth.den

\* C9, amended: [...] and the growth of every later row is that quotient
\* rounded to 2 decimals when the revenue of the row before is not 0; when it
\* is 0, the growth is +inf for a positive revenue and null for a revenue 0.
C9_MonthlyGrowthRounded ==
    Monthly =>
        /\ MonthlyRows
        /\ \A g \in 2..Len(last.value) :
              LET growth == last.value[g].MoM_Growth
                  cur == last.value[g].Revenue
                  prev == last.value[g - 1].Revenue
              IN  IF prev = 0
                  THEN growth.kind = (IF cur = 0 THEN "nan" ELSE "inf")
                  ELSE /\ growth.kind = "num"
                       /\ growth.den = 100
                       /\ 2 * Abs(growth.num * prev - (cur - prev) * 10000) <= prev

C9_Witness ==
    /\ Monthly
    /\ Len(last.value) = 2
    /\ last.value[2].year_month.month = 3
    /\ last.value[2].MoM_Growth.kind = "num"
    /\ last.value[2].MoM_Growth.num * last.value[1].Revenue
          # (last.value[2].Revenue - last.value[1].Revenue) * 10000

---------------------------------------------------------------------------
(* C10 *)

\* The k-th smallest of the values.
OrderStatistic(values, k) ==
    CHOOSE x \in Range(values) :
        /\ Cardinality({i \in DOMAIN values : values[i] < x}) < k
        /\ Cardinality({i \in DOMAIN values : values[i] <= x}) >= k

\* Four times the (25 q)-th percentile of the values, interpolated linearly
\* between the two order statistics around the position (n - 1) q / 4.
Percentile4(values, q) ==
    LET n == Len(values)
        below == OrderStatistic(values, ((n - 1) * q) \div 4 + 1)
        above == OrderStatistic(values, Min(((n - 1) * q) \div 4 + 2, n))
    IN  4 * below + (((n - 1) * q) % 4) * (above - below)

GivenCustomers == Range(GivenColumn("customer_id"))

LifetimeValue(c) ==
    SumSeq(ColumnOf(SelectSeq(given.rows, LAMBDA row : row["customer_id"] = c), "amount"))

\* The lifetime values of all customers, one entry per customer.
LifetimeValues ==
    LET cs == SortedKeys("customer_id", GivenCustomers)
    IN  [i \in 1..Len(cs) |-> LifetimeValue(cs[i])]

Above(ltv, q) == 4 * ltv > Percentile4(LifetimeValues, q)

\* C10: get_customer_segmentation returns one row per distinct customer_id,
\* each with one label of VIP, Premium, Standard, New, decided by the
\* customer's lifetime value against the 25th, 50th and 75th percentiles of
\* the lifetime values of all customers.
C10_Segments ==
    (Analysed /\ last.op = "get_customer_segmentation") =>
        /\ {last.value[g].customer_id : g \in DOMAIN last.value} = GivenCustomers
        /\ Len(last.value) = Cardinality(GivenCustomers)
        /\ \A g \in DOMAIN last.value :
              LET ltv == LifetimeValue(last.value[g].customer_id)
                  label == last.value[g].segment
              IN  /\ last.value[g].lifetime_value = ltv
                  /\ label \in {"VIP", "Premium", "Standard", "New"}
                  /\ label = "VIP" <=> Above(ltv, 3)
                  /\ label = "Premium" <=> (Above(ltv, 2) /\ ~Above(ltv, 3))
                  /\ label = "Standard" <=> (Above(ltv, 1) /\ ~Above(ltv, 2))
                  /\ label = "New" <=> ~Above(ltv, 1)

C10_Witness ==
    /\ Analysed
    /\ last.op = "get_customer_segmentation"
    /\ {last.value[g].segment : g \in DOMAIN last.value}
          = {"VIP", "Premium", "Standard", "New"}

---------------------------------------------------------------------------
(* C11 *)

TopCustomers == Analysed /\ last.op = "get_top_customers"

\* min(n, number of distinct customers) rows, one per customer, each with the
\* customer's total, and every returned total at least every total that was
\* not returned.
TopRows ==
    LET returned == {last.value[g].customer_id : g \in DOMAIN last.value}
    IN  /\ Len(last.value) = Min(last.arg, Cardinality(GivenCustomers))
        /\ Cardinality(returned) = Len(last.value)
        /\ returned \subseteq GivenCustomers
        /\ \A g \in DOMAIN last.value :
              /\ last.value[g].total_spent = LifetimeValue(last.value[g].customer_id)
              /\ \A c \in GivenCustomers \ returned :
                    last.value[g].total_spent >= LifetimeValue(c)

\* C11, as claimed: get_top_customers(n) returns min(n, number of distinct
\* customers) rows, one per customer; every returned total_spent is at least
\* every one not returned; and the rows are strictly sorted descending by
\* total_spent.
C11_TopStrictlyDescending ==
    TopCustomers =>
        /\ TopRows
        /\ \A g \in 1..(Len(last.value) - 1) :
              last.value[g].total_spent > last.value[g + 1].total_spent

\* C11, amended: [...] and the rows are sorted descending by total_spent,
\* customers of equal total_spent following one another.
C11_TopDescending ==
    TopCustomers =>
        /\ TopRows
        /\ \A g \in 1..(Len(last.value) - 1) :
              last.value[g].total_spent >= last.value[g + 1].total_spent

C11_Witness ==
    /\ TopCustomers
    /\ last.arg = MaxTopN
    /\ Cardinality(GivenCustomers) > MaxTopN
    /\ Len(last.value) = MaxTopN
    /\ last.value[1].total_spent = last.value[2].total_spent
    /\ \E c \in GivenCustomers : LifetimeValue(c) < last.value[2].total_spent
    /\ LifetimeValue(given.rows[1]["customer_id"]) < last.value[2].total_spent

---------------------------------------------------------------------------
(* C12 *)

KeyMetrics == Analysed /\ last.op = "get_key_metrics"

OrdersOf(c) == {i \in DOMAIN given.rows : given.rows[i]["customer_id"] = c}

RepeatCustomers == {c \in GivenCustomers : Cardinality(OrdersOf(c)) > 1}

\* C12: for a dataset with at least one customer, get_key_metrics reports
\* Customer_Count = the number of distinct customer_id, Revenue_Per_Customer =
\* sum(amount) / Customer_Count, and Repeat_Customer_Rate_% = 100 * (number of
\* customers with more than one order) / Customer_Count, a value in [0, 100].
C12_CustomerMetrics ==
    (KeyMetrics /\ GivenCustomers # {}) =>
        /\ last.raised = "none"
        /\ last.value.Customer_Count = Cardinality(GivenCustomers)
        /\ LET per == last.value.Revenue_Per_Customer
           IN  /\ per.kind = "num"
               /\ per.den > 0
               /\ per.num * Cardinality(GivenCustomers)
                     = SumSeq(GivenColumn("amount")) * per.den
        /\ LET rate == last.value.Repeat_Customer_Rate
           IN  /\ rate.kind = "num"
               /\ rate.den > 0
               /\ rate.num * Cardinality(GivenCustomers)
                     = 100 * Cardinality(RepeatCustomers) * rate.den
               /\ 0 <= rate.num
               /\ rate.num <= 100 * rate.den

C12_Witness ==
    /\ KeyMetrics
    /\ Cardinality(GivenCustomers) = 3
    /\ Cardinality(RepeatCustomers) = 1
    /\ last.value.Customer_Count = 3
    /\ last.value.Repeat_Customer_Rate.num * 3 = 100 * last.value.Repeat_Customer_Rate.den
    /\ last.value.Revenue_Per_Customer.num > last.value.Revenue_Per_Customer.den

---------------------------------------------------------------------------
(* C13 *)

Forecast == Analysed /\ last.op = "get_sales_forecast_indicators"

\* The calendar months with an order, in chronological order.
GivenMonths ==
    SortedKeys("year_month",
               {CalendarMonth(given.rows[i]["order_date"]) : i \in DOMAIN given.rows})

\* The revenue of each of those months: the sum of the amounts of its orders,
\* to the cent.
MonthRevenues ==
    [g \in DOMAIN GivenMonths |->
        Round2(SumSeq(ColumnOf(SelectSeq(given.rows,
                   LAMBDA row : CalendarMonth(row["order_date"]) = GivenMonths[g]),
                   "amount")), 1)]

\* C13: for a dataset with at least one month, get_sales_forecast_indicators
\* reports as latest_month_revenue the revenue of the chronologically last
\* month, as previous_month_revenue that of the month before it, or 0 when
\* there is one month only, and trend_direction is UP exactly when the latest
\* revenue is strictly greater than the mean of all monthly revenues, else
\* DOWN -- with a single month always DOWN.
C13_Forecast ==
    (Forecast /\ GivenMonths # <<>>) =>
        LET n == Len(GivenMonths)
        IN  /\ last.raised = "none"
            /\ last.value.latest_month_revenue = MonthRevenues[n]
            /\ last.value.previous_month_revenue
                  = (IF n > 1 THEN MonthRevenues[n - 1] ELSE 0)
            /\ last.value.trend_direction
                  = (IF MonthRevenues[n] * n > SumSeq(MonthRevenues) THEN "UP" ELSE "DOWN")
            /\ n = 1 => last.value.trend_direction = "DOWN"

---------------------------------------------------------------------------
(* C14 *)

\* The operations that go through get_monthly_trends, and the six others.
WritingOps ==
    {"get_monthly_trends", "get_key_metrics", "get_sales_forecast_indicators",
     "generate_report"}

ReadingOps ==
    {"get_revenue_summary", "get_regional_analysis", "get_product_performance",
     "get_customer_segmentation", "get_top_customers", "get_cohort_analysis"}

\* The stored frame has the rows it had right after construction, in their
\* order and with their values in the seven required columns, and no other
\* column than year_month, which holds the calendar month of order_date and
\* is there once an operation through get_monthly_trends has run.
StoredAsConstructed ==
    phase = "ready" =>
        LET df == heap[self_df]
        IN  /\ AllCols \subseteq df.cols
            /\ df.cols \subseteq AllCols \cup {"year_month"}
            /\ Len(df.rows) = Len(FreshFrame.rows)
            /\ \A i \in DOMAIN df.rows : \A c \in AllCols :
                  df.rows[i][c] = FreshFrame.rows[i][c]
            /\ "year_month" \in df.cols =>
                  \A i \in DOMAIN df.rows :
                      df.rows[i]["year_month"] = CalendarMonth(df.rows[i]["order_date"])
            /\ last.op \in WritingOps => "year_month" \in df.cols

\* A step that ends one of the six other operations leaves the stored frame
\* as it was.
ReadingKeepsStored ==
    (phase = "ready" /\ last'.op \in ReadingOps) =>
        (self_df' = self_df /\ heap'[self_df] = heap[self_df])

\* C14: after any sequence of analyses the stored dataset has the same rows,
\* in the same order and with the same values in the seven required columns,
\* as right after construction; the only change is that get_monthly_trends
\* (and get_key_metrics, get_sales_forecast_indicators and generate_report
\* through it) writes the column year_month, the calendar month of
\* order_date; the six other operations change nothing.
C14_StoredDataset == []StoredAsConstructed /\ [][ReadingKeepsStored]_vars

C14_Witness ==
    /\ Analysed
    /\ last.op = "get_cohort_analysis"
    /\ Len(last.value) > 1
    /\ "year_month" \in heap[self_df].cols
    /\ Len(heap[self_df].rows) = MaxRows
    /\ given.rows[1]["order_date"].type = "str"
    /\ heap[self_df].rows[1]["year_month"].month = 1
    /\ heap[self_df].rows[2]["year_month"].month = 3

---------------------------------------------------------------------------
(* C15 *)

Cohort == Analysed /\ last.op = "get_cohort_analysis"

\* The calendar month of the customer's earliest order.
CohortOf(c) ==
    LET days == {given.rows[i]["order_date"].day : i \in OrdersOf(c)}
    IN  CalendarMonth([day |-> CHOOSE d \in days : \A e \in days : d <= e])

\* C15: get_cohort_analysis assigns every distinct customer to exactly one
\* cohort, the year-month of the customer's earliest order, and reports per
\* cohort the number of distinct customers in it: one row per cohort, the
\* sizes sum to the number of distinct customers, and every reported cohort
\* has a size of at least 1.
C15_Cohorts ==
    Cohort =>
        /\ {last.value[g].cohort_month : g \in DOMAIN last.value}
              = {CohortOf(c) : c \in GivenCustomers}
        /\ \A g, h \in DOMAIN last.value :
              last.value[g].cohort_month = last.value[h].cohort_month => g = h
        /\ \A g \in DOMAIN last.value :
              /\ last.value[g].customer_id
                    = Cardinality({c \in GivenCustomers :
                                     CohortOf(c) = last.value[g].cohort_month})
              /\ last.value[g].customer_id >= 1
        /\ SumSeq(ColumnOf(last.value, "customer_id")) = Cardinality(GivenCustomers)

C15_Witness ==
    /\ Cohort
    /\ Len(last.value) = 2
    /\ Cardinality(GivenCustomers) = 2
    /\ last.value[1].customer_id = 1
    /\ last.value[2].customer_id = 1
    /\ \E c \in GivenCustomers :
          /\ Cardinality(OrdersOf(c)) = 2
          /\ CalendarMonth(given.rows[1]["order_date"]) # CohortOf(c)
          /\ given.rows[1]["customer_id"] = c

===========================================================================
